---- MODULE Spec2Model ----
(***************************************************************************)
(* A model of the RepeetCode backend (src/backend/main.py and              *)
(* src/backend/database.py): the review scheduler, the streak calculator,  *)
(* the /log upsert flow running inside a get_db_cursor transaction, and    *)
(* the /reviews and /dashboard_stats read handlers.                        *)
(*                                                                         *)
(* Time.  An instant is a natural number of ticks.  A UTC calendar day is  *)
(* TicksPerDay consecutive ticks; only the order of instants, their day    *)
(* and whole-day differences matter to the code.  The last tick of a day   *)
(* stands for the instants after 23:59:59 (time(23, 59, 59) in             *)
(* get_todays_reviews is not the end of the day), every other tick for an  *)
(* instant at or before 23:59:59.                                          *)
(*                                                                         *)
(* Store.  user_problem is the committed content of the table; the writes  *)
(* of an open transaction are held in write[p] until its commit (READ      *)
(* COMMITTED: no other connection sees them).  leetcode_problem is a       *)
(* read-only catalog.                                                      *)
(***************************************************************************)
EXTENDS Integers, Sequences, FiniteSets, TLC

\* ---------------------------------------------------------------- bounds
\* ticks of one UTC day
TicksPerDay == 2
\* ticks the clock advances while requests are served
MaxTicks == 2
\* POST /log requests started
MaxCalls == 2
\* age in days of the oldest log when the server is observed
MaxDaysSince == 200
\* days the streak calculator is applied to
MaxStreakDay == 3

\* ------------------------------------------------------ program constants
\* min(next_gap, 90)
MaxGapDays == 90

Users == {"alice", "bob"}

\* Request slots of the server: a request takes the first free one.
Procs == {1, 2}

\* The catalog table leetcode_problem: slug -> tags as stored (a JSON list,
\* a JSON object whose keys are the tags, or NULL).
leetcode_problem ==
  [s \in {"two-sum", "lru-cache"} |->
      IF s = "two-sum" THEN [kind |-> "dict", items |-> <<"array", "hash-table">>]
      ELSE [kind |-> "null", items |-> <<>>]]

CatalogSlugs == DOMAIN leetcode_problem

Body(user_id, slug, title, difficulty) ==
  [user_id |-> user_id, slug |-> slug, title |-> title,
   difficulty |-> difficulty]

\* The POST /log requests clients send: the verified user_id and the
\* ProblemLog body (slug: str, title: str, difficulty: any int).
Requests ==
  { Body("alice", "two-sum", "Two Sum", 1),
    Body("alice", "two-sum", "1. Two Sum", 5),
    Body("alice", "lru-cache", "LRU Cache", 5),
    Body("bob", "two-sum", "Two Sum", 5),
    Body("alice", "two-sum", "Two Sum", 6),
    Body("alice", "no-such-problem", "Nothing", 5),
    Body("bob", "lru-cache", "LRU Cache", 0) }

VARIABLES
  clock,        \* the current UTC instant, in ticks
  user_problem, \* committed rows of the user_problem table
  pc,           \* per request slot: where log_problem stands
  data,         \* per request slot: user_id and the ProblemLog body
  conn,         \* per request slot: the connection of get_db_cursor
  last_review,  \* per request slot: the result of the "Last review" query
  write,        \* per request slot: the row of the issued upsert
  stmts,        \* per request slot: the statements issued on the cursor
  calls,        \* number of /log requests started
  result,       \* what the step just taken returned to its caller
  solved_days,  \* history: per user, the days with a committed log
  replaced,     \* history: per key, date_solved of the row the last
                \* committed upsert overwrote
  fn            \* a call of a pure function on its own: arguments, "now",
                \* and what it returned

vars == <<clock, user_problem, pc, data, conn, last_review, write, stmts,
          calls, result, solved_days, replaced, fn>>

\* the state of the server, as opposed to fn
server == <<clock, user_problem, pc, data, conn, last_review, write, stmts,
            calls, result, solved_days, replaced>>

\* ------------------------------------------------------------------ time
\* datetime.date(): the calendar day of an instant.
Day(t) == t \div TicksPerDay

\* timedelta(days=n)
Days(n) == n * TicksPerDay

\* (a - b).days: timedelta normalises to days + a non-negative remainder,
\* so .days is the floor of the difference in days (negative when a < b).
TimedeltaDays(a, b) ==
  IF a >= b THEN (a - b) \div TicksPerDay
  ELSE -(((b - a) + TicksPerDay - 1) \div TicksPerDay)

\* datetime.combine(date, time(23, 59, 59)): one tick before the day's last.
TodayEnd(now) == Day(now) * TicksPerDay + (TicksPerDay - 2)


\* ------------------------------------------------------ Review Scheduler
\* initial_days = {1: 8, 2: 6, 3: 4, 4: 2, 5: 1}
initial_days == [d \in 1..5 |-> CASE d = 1 -> 8 [] d = 2 -> 6 [] d = 3 -> 4
                                  [] d = 4 -> 2 [] d = 5 -> 1]

\* multiplier = {1: 0.5, 2: 0.7, 3: 0.9, 4: 1.2, 5: 1.5}, in tenths.
multiplier == [d \in 1..5 |-> CASE d = 1 -> 5 [] d = 2 -> 7 [] d = 3 -> 9
                                [] d = 4 -> 12 [] d = 5 -> 15]

Abs(n) == IF n < 0 THEN -n ELSE n

\* days * multiplier[d] is an IEEE-754 double product.  The doubles nearest
\* 0.5, 0.9, 1.2 and 1.5 give products whose integer part is that of the
\* exact product for every |days| < 650; the double nearest 0.7 lies below
\* 0.7, and for these |days| the rounded product lies just below the exact
\* integer (90 * 0.7 = 62.99999999999999).
ProductBelowInteger(days, d) ==
  d = 2 /\ Abs(days) \in {90, 170, 180, 330, 340, 350, 360}

\* int(days_since_last * multiplier[difficulty]): int() truncates toward 0.
IntProduct(days, d) ==
  LET exact == (Abs(days) * multiplier[d]) \div 10
      mag   == IF ProductBelowInteger(days, d) THEN exact - 1 ELSE exact
  IN  IF days < 0 THEN -mag ELSE mag

Max(a, b) == IF a >= b THEN a ELSE b
Min(a, b) == IF a <= b THEN a ELSE b

\* NextGap without the max(1, ...) floor.
NextGapUnfloored(days, d) == IntProduct(days, d)

\* next_gap = max(1, int(days_since_last * multiplier[difficulty]))
NextGap(days, d) == Max(1, IntProduct(days, d))

\* calculate_next_review(difficulty, last_review_date) evaluated at `now`.
\* last is the optional datetime as a set: {} for None, {t} for a datetime.
\* A difficulty that is no key of the dict raises KeyError.
calculate_next_review(difficulty, last, now) ==
  IF difficulty \notin DOMAIN initial_days
  THEN [raised |-> "KeyError", value |-> 0]
  ELSE IF last = {}
       THEN [raised |-> "", value |-> now + Days(initial_days[difficulty])]
       ELSE LET last_review_date == CHOOSE t \in last : TRUE
                days_since_last  == TimedeltaDays(now, last_review_date)
                next_gap         == NextGap(days_since_last, difficulty)
            IN  [raised |-> "", value |-> now + Days(Min(next_gap, MaxGapDays))]

\* ----------------------------------------------------- Streak Calculator
RECURSIVE StreakWalk(_, _, _)
\* while today in logged_days: streak += 1; today -= timedelta(days=1)
StreakWalk(logged_days, today, streak) ==
  IF today \in logged_days
  THEN StreakWalk(logged_days, today - 1, streak + 1)
  ELSE streak

\* calculate_current_streak with the walk starting at yesterday when today
\* has no log yet.
StreakFromYesterday(dates, now) ==
  LET logged_days == {Day(t) : t \in dates}
  IN  IF Day(now) \in logged_days
      THEN StreakWalk(logged_days, Day(now), 0)
      ELSE StreakWalk(logged_days, Day(now) - 1, 0)

\* calculate_current_streak(dates) evaluated at `now`; dates are the
\* instants whose ISO strings the caller passes.
calculate_current_streak(dates, now) ==
  IF dates = {} THEN 0
  ELSE LET logged_days == {Day(t) : t \in dates}
       IN  StreakWalk(logged_days, Day(now), 0)

\* ------------------------------------------------------------------ store
\* The "--- FIX HERE ---" normalisation of the catalog's tags.
NormalizeTags(raw) ==
  IF raw.kind = "null" THEN <<>> ELSE raw.items

SameKey(r, q) == r.user_id = q.user_id /\ r.slug = q.slug

\* Upsert as a plain INSERT, without the ON CONFLICT clause or the key.
InsertOnly(rows, new) == rows \cup {new}

\* INSERT ... ON CONFLICT (user_id, slug) DO UPDATE SET difficulty,
\* date_solved, next_review_date, tags (title keeps its stored value).
Upsert(rows, new) ==
  IF \E r \in rows : SameKey(r, new)
  THEN {IF SameKey(r, new)
        THEN [r EXCEPT !.difficulty = new.difficulty,
                       !.date_solved = new.date_solved,
                       !.next_review_date = new.next_review_date,
                       !.tags = new.tags]
        ELSE r : r \in rows}
  ELSE rows \cup {new}

\* conn.commit(): the writes of the transaction become the committed rows.
Commit(rows, writes) ==
  IF writes = {} THEN rows ELSE Upsert(rows, CHOOSE w \in writes : TRUE)

\* conn.rollback(): the writes of the transaction are discarded.
Rollback(rows, writes) == rows

\* SELECT date_solved FROM user_problem WHERE user_id = %s AND slug = %s
\* ORDER BY date_solved DESC LIMIT 1, as the set of date_solved it can return.
LastReview(rows, user_id, slug) ==
  LET mine == {r \in rows : r.user_id = user_id /\ r.slug = slug}
  IN  {r.date_solved : r \in {r \in mine :
                                \A q \in mine : q.date_solved <= r.date_solved}}

\* SELECT * FROM user_problem WHERE user_id = %s ORDER BY date_solved DESC
get_user_problem_logs(rows, user_id) == {r \in rows : r.user_id = user_id}

\* SELECT up.*, lp.tags FROM user_problem up JOIN leetcode_problem lp
\* ON up.slug = lp.slug: lp.tags replaces up.tags in the RealDictCursor row.
Joined(rows) ==
  {[r EXCEPT !.tags = leetcode_problem[r.slug]] :
     r \in {r \in rows : r.slug \in CatalogSlugs}}

\* ... WHERE up.user_id = %s AND up.next_review_date <= %s
DueReviews(rows, user_id, today_end) ==
  {r \in Joined(rows) : r.user_id = user_id /\ r.next_review_date <= today_end}

\* NextUp with ORDER BY up.next_review_date DESC.
NextUpLatest(rows, user_id) ==
  LET mine == {r \in Joined(rows) : r.user_id = user_id}
  IN  {r \in mine : \A q \in mine : r.next_review_date >= q.next_review_date}

\* ... WHERE up.user_id = %s ORDER BY up.next_review_date ASC LIMIT 1, as the
\* set of rows the query can return (ties are the store's choice).
NextUp(rows, user_id) ==
  LET mine == {r \in Joined(rows) : r.user_id = user_id}
  IN  {r \in mine : \A q \in mine : r.next_review_date <= q.next_review_date}

\* ------------------------------------------------------------- get_db_cursor
\* ScopeEnd with conn.commit() moved to the `finally` block.
ScopeEndCommitAlways(body_raised, commit_ok) ==
  IF commit_ok THEN "committed" ELSE "rolledback"

\* How the scope of get_db_cursor ends once conn is set: conn.commit() when
\* the body finished without raising and the commit itself succeeds,
\* conn.rollback() in `except Exception` otherwise.
ScopeEnd(body_raised, commit_ok) ==
  IF ~body_raised /\ commit_ok THEN "committed" ELSE "rolledback"

\* `finally: if conn: conn.close()`
ConnAtExit(c) == IF c = "open" THEN "closed" ELSE c

\* The committed rows after the scope ended.
RowsAtExit(rows, writes, tx) ==
  IF tx = "committed" THEN Commit(rows, writes) ELSE Rollback(rows, writes)

\* The status the client receives from log_problem.  An HTTPException raised
\* in the body is caught by `except Exception` of get_db_cursor and raised
\* again as HTTPException(500), which `except Exception` of log_problem
\* raises once more as HTTPException(500).
LogStatus(raised) == IF raised = "" THEN 200 ELSE 500

\* ------------------------------------------------------------------- state
NoData == Body("", "", "", 0)
NoResult == [op |-> "none"]

NoCall == [op |-> "none"]

\* The instant the server is observed from: the last tick of the day
\* before day MaxDaysSince.
StartClock == Days(MaxDaysSince) - 1

\* Rows of a store that has been in use: alice logged two-sum (difficulty 5)
\* MaxDaysSince days ago, bob logged it (difficulty 1) 50 days ago, both for
\* the first time, through log_problem.
OldRows ==
  { [user_id |-> "alice", slug |-> "two-sum", title |-> "Two Sum",
     difficulty |-> 5, date_solved |-> 0,
     next_review_date |-> calculate_next_review(5, {}, 0).value,
     tags |-> NormalizeTags(leetcode_problem["two-sum"])],
    [user_id |-> "bob", slug |-> "two-sum", title |-> "Two Sum",
     difficulty |-> 1, date_solved |-> StartClock - Days(50),
     next_review_date |->
        calculate_next_review(1, {}, StartClock - Days(50)).value,
     tags |-> NormalizeTags(leetcode_problem["two-sum"])] }

\* The server starts serving with an empty user_problem table or with one
\* that earlier requests filled.
Init ==
  /\ clock = StartClock
  /\ user_problem \in {{}, OldRows}
  /\ pc = [p \in Procs |-> "idle"]
  /\ data = [p \in Procs |-> NoData]
  /\ conn = [p \in Procs |-> "none"]
  /\ last_review = [p \in Procs |-> {}]
  /\ write = [p \in Procs |-> {}]
  /\ stmts = [p \in Procs |-> {}]
  /\ calls = 0
  /\ result = NoResult
  /\ solved_days = [u \in Users |->
        {Day(r.date_solved) : r \in {r \in user_problem : r.user_id = u}}]
  /\ replaced = [k \in Users \X CatalogSlugs |-> {}]
  /\ fn = NoCall

\* The request slot p is free again.
Release(p) ==
  /\ pc' = [pc EXCEPT ![p] = "idle"]
  /\ data' = [data EXCEPT ![p] = NoData]
  /\ conn' = [conn EXCEPT ![p] = "none"]
  /\ last_review' = [last_review EXCEPT ![p] = {}]
  /\ write' = [write EXCEPT ![p] = {}]
  /\ stmts' = [stmts EXCEPT ![p] = {}]

\* What log_problem returned, with what its get_db_cursor scope did.
LogResult(p, raised, connection, tx, issued) ==
  [op |-> "log", status |-> LogStatus(raised), raised |-> raised,
   user_id |-> data[p].user_id, slug |-> data[p].slug,
   title |-> data[p].title, difficulty |-> data[p].difficulty,
   conn |-> ConnAtExit(connection), tx |-> tx, stmts |-> issued,
   write |-> write[p],
   conflict |-> \E r \in user_problem : \E w \in write[p] : SameKey(r, w)]

\* The body of the `with` raised: rollback, close, HTTPException(500).
Raise(p, raised, issued) ==
  LET tx == ScopeEnd(TRUE, TRUE)
  IN  /\ user_problem' = RowsAtExit(user_problem, write[p], tx)
      /\ result' = LogResult(p, raised, conn[p], tx, issued)
      /\ Release(p)
      /\ UNCHANGED <<clock, calls, solved_days, replaced, fn>>

\* --------------------------------------------------------------- POST /log
\* log_problem is entered and get_db_cursor connects.  A failing
\* psycopg2.connect leaves conn = None: nothing to roll back or close.
LogBegin(p, body, connected) ==
  /\ result = NoResult
  /\ pc[p] = "idle"
  /\ \A q \in Procs : q < p => pc[q] # "idle"
  /\ calls < MaxCalls
  /\ calls' = calls + 1
  /\ IF connected
     THEN /\ pc' = [pc EXCEPT ![p] = "check"]
          /\ data' = [data EXCEPT ![p] = body]
          /\ conn' = [conn EXCEPT ![p] = "open"]
          /\ result' = NoResult
     ELSE /\ result' = [op |-> "log", status |-> LogStatus("OperationalError"),
                        raised |-> "OperationalError",
                        user_id |-> body.user_id, slug |-> body.slug,
                        title |-> body.title,
                        difficulty |-> body.difficulty,
                        conn |-> ConnAtExit("none"),
                        tx |-> "none", stmts |-> {}, write |-> {},
                        conflict |-> FALSE]
          /\ UNCHANGED <<pc, data, conn>>
  /\ UNCHANGED <<clock, user_problem, last_review, write, stmts,
                 solved_days, replaced, fn>>

\* 1. Check if problem exists; 2. Get tags (the catalog is read-only, the
\* two SELECTs on leetcode_problem see the same row).
LogCheckProblem(p) ==
  /\ result = NoResult
  /\ pc[p] = "check"
  /\ IF data[p].slug \in CatalogSlugs
     THEN /\ pc' = [pc EXCEPT ![p] = "last"]
          /\ stmts' = [stmts EXCEPT ![p] = @ \cup {"problem", "tags"}]
          /\ result' = NoResult
          /\ UNCHANGED <<clock, user_problem, data, conn, last_review, write,
                         calls, solved_days, replaced, fn>>
     ELSE Raise(p, "400: Problem does not exist in database",
                stmts[p] \cup {"problem"})

\* 3. Last review: a READ COMMITTED read of the committed rows.
LogLastReview(p) ==
  /\ result = NoResult
  /\ pc[p] = "last"
  /\ \E found \in
        IF LastReview(user_problem, data[p].user_id, data[p].slug) = {}
        THEN {{}}
        ELSE {{t} : t \in LastReview(user_problem, data[p].user_id, data[p].slug)} :
       last_review' = [last_review EXCEPT ![p] = found]
  /\ pc' = [pc EXCEPT ![p] = "upsert"]
  /\ stmts' = [stmts EXCEPT ![p] = @ \cup {"last_review"}]
  /\ result' = NoResult
  /\ UNCHANGED <<clock, user_problem, data, conn, write, calls,
                 solved_days, replaced, fn>>

\* Another open transaction holds an uncommitted write of p's key.
RowLocked(p) ==
  \E q \in Procs \ {p} :
     /\ pc[q] = "commit"
     /\ \E w \in write[q] :
          w.user_id = data[p].user_id /\ w.slug = data[p].slug

\* 4. Next review; 5. Insert/upsert.  The parameters of the statement
\* (next_review, datetime.now(timezone.utc), the tags) are computed when it
\* is issued; the statement waits while another transaction holds the row.
LogUpsert(p) ==
  /\ result = NoResult
  /\ pc[p] = "upsert"
  /\ LET next_review ==
           calculate_next_review(data[p].difficulty, last_review[p], clock)
     IN  IF next_review.raised # ""
         THEN Raise(p, next_review.raised, stmts[p])
         ELSE /\ write' = [write EXCEPT ![p] =
                    {[user_id |-> data[p].user_id, slug |-> data[p].slug,
                      title |-> data[p].title,
                      difficulty |-> data[p].difficulty,
                      date_solved |-> clock,
                      next_review_date |-> next_review.value,
                      tags |-> NormalizeTags(leetcode_problem[data[p].slug])]}]
              /\ stmts' = [stmts EXCEPT ![p] = @ \cup {"upsert"}]
              /\ pc' = [pc EXCEPT ![p] =
                    IF RowLocked(p) THEN "blocked" ELSE "commit"]
              /\ result' = NoResult
              /\ UNCHANGED <<clock, user_problem, data, conn, last_review,
                             calls, solved_days, replaced, fn>>

\* The transaction holding the row has ended: the upsert goes through.
LogUnblock(p) ==
  /\ result = NoResult
  /\ pc[p] = "blocked"
  /\ ~RowLocked(p)
  /\ pc' = [pc EXCEPT ![p] = "commit"]
  /\ result' = NoResult
  /\ UNCHANGED <<clock, user_problem, data, conn, last_review, write, stmts,
                 calls, solved_days, replaced, fn>>

\* The body returned: conn.commit(), which may itself raise; conn.close().
LogCommit(p, commit_ok) ==
  /\ result = NoResult
  /\ pc[p] = "commit"
  /\ LET tx     == ScopeEnd(FALSE, commit_ok)
         raised == IF commit_ok THEN "" ELSE "OperationalError"
         w      == CHOOSE w \in write[p] : TRUE
     IN  /\ user_problem' = RowsAtExit(user_problem, write[p], tx)
         /\ result' = LogResult(p, raised, conn[p], tx, stmts[p])
         /\ IF tx = "committed"
            THEN /\ solved_days' = [solved_days EXCEPT ![w.user_id] =
                                      @ \cup {Day(w.date_solved)}]
                 /\ replaced' = [replaced EXCEPT ![<<w.user_id, w.slug>>] =
                       {r.date_solved : r \in {r \in user_problem : SameKey(r, w)}}]
            ELSE UNCHANGED <<solved_days, replaced>>
  /\ Release(p)
  /\ UNCHANGED <<clock, calls, fn>>

\* A statement on the cursor raises (the store is unreachable, the
\* statement is cancelled, ...).
StoreError(p) ==
  /\ result = NoResult
  /\ pc[p] \in {"check", "last", "upsert", "blocked"}
  /\ Raise(p, "OperationalError", stmts[p])

\* ------------------------------------------------------------ GET /reviews
\* get_todays_reviews, one transaction on the committed rows.
get_todays_reviews(user_id) ==
  LET today_end   == TodayEnd(clock)
      due_reviews == DueReviews(user_problem, user_id, today_end)
  IN  /\ result = NoResult
      /\ \E next_up \in
            IF due_reviews # {} \/ NextUp(user_problem, user_id) = {}
            THEN {{}}
            ELSE {{r} : r \in NextUp(user_problem, user_id)} :
           result' = [op |-> "reviews", status |-> 200, user_id |-> user_id,
                      reviews_due |-> due_reviews,
                      has_next_up |-> (due_reviews = {}),
                      next_up |-> next_up]
      /\ UNCHANGED <<clock, user_problem, pc, data, conn, last_review, write,
                     stmts, calls, solved_days, replaced, fn>>

\* ---------------------------------------------------- GET /dashboard_stats
dashboard_stats(user_id) ==
  LET problem_logs == get_user_problem_logs(user_problem, user_id)
      timestamps   == {log.date_solved : log \in problem_logs}
      streak       == calculate_current_streak(timestamps, clock)
  IN  /\ result = NoResult
      /\ result' = [op |-> "stats", status |-> 200, user_id |-> user_id,
                    current_streak |-> streak]
      /\ UNCHANGED <<clock, user_problem, pc, data, conn, last_review, write,
                     stmts, calls, solved_days, replaced, fn>>

\* ------------------------------------------------------------------ clock
Tick ==
  /\ result = NoResult
  /\ clock < StartClock + MaxTicks
  /\ clock' = clock + 1
  /\ result' = NoResult
  /\ UNCHANGED <<user_problem, pc, data, conn, last_review, write, stmts,
                 calls, solved_days, replaced, fn>>

\* The caller has received what the step returned.
Return ==
  /\ result # NoResult
  /\ result' = NoResult
  /\ UNCHANGED <<clock, user_problem, pc, data, conn, last_review, write,
                 stmts, calls, solved_days, replaced, fn>>

Next ==
  \/ \E p \in Procs, body \in Requests, connected \in BOOLEAN :
       LogBegin(p, body, connected)
  \/ \E p \in Procs : LogCheckProblem(p)
  \/ \E p \in Procs : LogLastReview(p)
  \/ \E p \in Procs : LogUpsert(p)
  \/ \E p \in Procs : LogUnblock(p)
  \/ \E p \in Procs, commit_ok \in BOOLEAN : LogCommit(p, commit_ok)
  \/ \E p \in Procs : StoreError(p)
  \/ \E u \in Users : get_todays_reviews(u)
  \/ \E u \in Users : dashboard_stats(u)
  \/ Tick
  \/ Return

Spec == Init /\ [][Next]_vars

\* ------------------------------------ the Review Scheduler on its own
\* Difficulties passed to the scheduler: the domain 1..5 and its neighbours.
SchedDifficulties == 0..6

\* "now" of a scheduler call: the last tick of a day and the first of the
\* next.
SchedNows == {StartClock, StartClock + 1}

\* last_review_date: None, or an instant from MaxDaysSince days before now
\* to two days after it (a skewed clock).
SchedLasts == {{}} \cup {{t} : t \in 0..(StartClock + Days(2))}

SchedInit ==
  /\ fn \in {[op |-> "calculate_next_review", state |-> "called",
              difficulty |-> d, last |-> l, now |-> n,
              raised |-> "", value |-> 0] :
                d \in SchedDifficulties, l \in SchedLasts, n \in SchedNows}
  /\ clock = StartClock
  /\ user_problem = {}
  /\ pc = [p \in Procs |-> "idle"]
  /\ data = [p \in Procs |-> NoData]
  /\ conn = [p \in Procs |-> "none"]
  /\ last_review = [p \in Procs |-> {}]
  /\ write = [p \in Procs |-> {}]
  /\ stmts = [p \in Procs |-> {}]
  /\ calls = 0
  /\ result = NoResult
  /\ solved_days = [u \in Users |-> {}]
  /\ replaced = [k \in Users \X CatalogSlugs |-> {}]

SchedReturn ==
  /\ fn.op = "calculate_next_review"
  /\ fn.state = "called"
  /\ LET r == calculate_next_review(fn.difficulty, fn.last, fn.now)
     IN  fn' = [fn EXCEPT !.state = "returned", !.raised = r.raised,
                          !.value = r.value]
  /\ UNCHANGED server

SchedNext == SchedReturn

SchedSpec == SchedInit /\ [][SchedNext]_vars

\* ------------------------------------ the Streak Calculator on its own
\* The instants whose timestamps may be passed: the first and the last tick
\* of each of the days 0..MaxStreakDay.
StreakInstants ==
  UNION {{Days(d), Days(d) + TicksPerDay - 1} : d \in 0..MaxStreakDay}

\* "now" of a streak call: any instant of the days 0..MaxStreakDay + 1.
StreakNows == 0..(Days(MaxStreakDay + 2) - 1)

StreakInit ==
  /\ fn \in {[op |-> "calculate_current_streak", state |-> "called",
              dates |-> ds, now |-> n, value |-> 0] :
                ds \in SUBSET StreakInstants, n \in StreakNows}
  /\ clock = StartClock
  /\ user_problem = {}
  /\ pc = [p \in Procs |-> "idle"]
  /\ data = [p \in Procs |-> NoData]
  /\ conn = [p \in Procs |-> "none"]
  /\ last_review = [p \in Procs |-> {}]
  /\ write = [p \in Procs |-> {}]
  /\ stmts = [p \in Procs |-> {}]
  /\ calls = 0
  /\ result = NoResult
  /\ solved_days = [u \in Users |-> {}]
  /\ replaced = [k \in Users \X CatalogSlugs |-> {}]

StreakReturn ==
  /\ fn.op = "calculate_current_streak"
  /\ fn.state = "called"
  /\ fn' = [fn EXCEPT !.state = "returned",
                      !.value = calculate_current_streak(fn.dates, fn.now)]
  /\ UNCHANGED server

StreakNext == StreakReturn

StreakSpec == StreakInit /\ [][StreakNext]_vars

\* ================================================================ claims
\* The columns of a user_problem row that a reader can compare (the tags
\* of a joined row are the catalog's, in the catalog's representation).
Columns(r) ==
  [user_id |-> r.user_id, slug |-> r.slug, title |-> r.title,
   difficulty |-> r.difficulty, date_solved |-> r.date_solved,
   next_review_date |-> r.next_review_date]

RowsOf(user_id) == {r \in user_problem : r.user_id = user_id}

\* The number of consecutive days, ending at `today`, that are all in days.
ConsecutiveDaysEnding(days, today) ==
  CHOOSE k \in 0..(today + 1) :
     /\ \A i \in 0..(k - 1) : (today - i) \in days
     /\ (today - k) \notin days

\* ------------------------------------------------------------------- C1
\* C1: the store holds at most one row per (user_id, slug), and right after
\* a successful log_problem the one row of its pair carries the difficulty,
\* date_solved, next_review_date and tags of that call's upsert.
C1_OneRowPerPair ==
  /\ \A r, q \in user_problem : SameKey(r, q) => r = q
  /\ (result.op = "log" /\ result.status = 200) =>
        /\ result.write # {}
        /\ \A w \in result.write :
             /\ w.difficulty = result.difficulty
             /\ \E r \in user_problem :
                  /\ r.user_id = result.user_id /\ r.slug = result.slug
                  /\ r.difficulty = w.difficulty
                  /\ r.date_solved = w.date_solved
                  /\ r.next_review_date = w.next_review_date
                  /\ r.tags = NormalizeTags(leetcode_problem[result.slug])

\* A second log of a pair, with another difficulty than the row it replaced,
\* has just committed.
C1_Witness ==
  /\ result.op = "log" /\ result.status = 200 /\ result.conflict
  /\ \E r \in OldRows :
       /\ r.user_id = result.user_id /\ r.slug = result.slug
       /\ r.difficulty # result.difficulty
       /\ r \notin user_problem

\* ------------------------------------------------------------------- C2
\* HTTPException(400, "Problem does not exist in database")
ProblemNotFoundStatus == 400

\* C2: a log_problem call for a slug that is not in the catalog, once
\* connected, fails with the status of ProblemNotFound and writes nothing;
\* every stored row's slug is a slug of the catalog.
C2_ProblemNotFound ==
  /\ \A r \in user_problem : r.slug \in CatalogSlugs
  /\ (result.op = "log" /\ result.conn # "none"
        /\ result.slug \notin CatalogSlugs /\ result.raised # "OperationalError") =>
        /\ result.status = ProblemNotFoundStatus
        /\ result.write = {}
        /\ "upsert" \notin result.stmts

\* ------------------------------------------------------------------- C3
\* C3: a log_problem call with a difficulty outside 1..5 fails without
\* having issued any statement on the store.
C3_InvalidDifficultyBeforeStore ==
  (result.op = "log" /\ result.difficulty \notin 1..5) =>
     /\ result.status # 200
     /\ result.stmts = {}
     /\ result.write = {}

\* ------------------------------------------------------------------- C4
ClaimedInitialOffsetDays == <<8, 6, 4, 2, 1>>
ClaimedMultiplierTenths == <<5, 7, 9, 12, 15>>

\* The whole days between last and now, clamped to 0 when now < last.
ClaimedDaysSinceLast(last, now) ==
  IF now < last THEN 0 ELSE (now - last) \div TicksPerDay

ClaimedGap(d, last, now) ==
  IF last = {} THEN ClaimedInitialOffsetDays[d]
  ELSE LET days == ClaimedDaysSinceLast(CHOOSE t \in last : TRUE, now)
       IN  Min(90, Max(1, (days * ClaimedMultiplierTenths[d]) \div 10))

\* C4: for a difficulty in 1..5 the scheduler returns now + g days, g the
\* initial offset without a last review date and
\* min(90, max(1, floor(daysSinceLast * multiplier))) with one.
C4_NextReviewDate ==
  (fn.op = "calculate_next_review" /\ fn.state = "returned"
     /\ fn.difficulty \in 1..5) =>
     /\ fn.raised = ""
     /\ fn.value = fn.now + Days(ClaimedGap(fn.difficulty, fn.last, fn.now))

\* C4 holds of every call but those with difficulty 2 and 90 whole days
\* since the last review.
C4_ExceptDifficulty2After90Days ==
  (fn.op = "calculate_next_review" /\ fn.state = "returned"
     /\ fn.difficulty \in 1..5
     /\ ~(fn.difficulty = 2 /\ fn.last # {}
            /\ \A t \in fn.last : ClaimedDaysSinceLast(t, fn.now) = 90)) =>
     /\ fn.raised = ""
     /\ fn.value = fn.now + Days(ClaimedGap(fn.difficulty, fn.last, fn.now))

\* ------------------------------------------------------------------- C5
\* The user's committed rows that are due at the end of today.
DueToday(user_id) ==
  {r \in RowsOf(user_id) : r.next_review_date <= TodayEnd(clock)}

\* What cases (a) and (c) of C5 say of the response, and case (b) but for
\* how the next-up row's date compares.
C5_Cases ==
  LET mine == RowsOf(result.user_id)
      due  == DueToday(result.user_id)
  IN  /\ due # {} =>
           /\ {Columns(r) : r \in result.reviews_due} = {Columns(r) : r \in due}
           /\ ~result.has_next_up
      /\ (mine # {} /\ due = {}) =>
           /\ result.reviews_due = {}
           /\ result.has_next_up
           /\ \E n \in result.next_up :
                /\ Columns(n) \in {Columns(r) : r \in mine}
                /\ \A r \in mine : n.next_review_date <= r.next_review_date
      /\ mine = {} =>
           /\ result.reviews_due = {}
           /\ result.next_up = {}

C6_StreakOfLoggedDays ==
  (result.op = "stats") =>
     result.current_streak =
        ConsecutiveDaysEnding(solved_days[result.user_id], Day(clock))

\* ------------------------------------------------------------------- C7
\* C7: calculate_current_streak returns the largest k with today, ...,
\* today-(k-1) all logged: 0 for no dates, 0 when today is not logged, and a
\* missing day ends the count.
C7_CurrentStreak ==
  (fn.op = "calculate_current_streak" /\ fn.state = "returned") =>
     LET logged == {Day(t) : t \in fn.dates}
         today  == Day(fn.now)
         k      == fn.value
     IN  /\ k \in Nat
         /\ \A i \in 0..(k - 1) : (today - i) \in logged
         /\ (today - k) \notin logged
         /\ fn.dates = {} => k = 0
         /\ today \notin logged => k = 0
         /\ (today \in logged /\ (today - 1) \notin logged) => k = 1

\* Today and yesterday are logged, the day before is not, an earlier day is.
C7_Witness ==
  /\ fn.op = "calculate_current_streak" /\ fn.state = "returned"
  /\ fn.value = 2
  /\ \E t \in fn.dates : Day(t) < Day(fn.now) - 2

\* ------------------------------------------------------------------- C8
\* C8: a get_db_cursor scope that acquired its connection closes it, commits
\* exactly when the body did not raise and the commit went through, rolls
\* back otherwise; the committed rows change only at the commit of such a
\* scope, and a scope that ended in an error leaves them as they were.
C8_ScopedTransaction ==
  [][ /\ (result'.op = "log" /\ result'.conn # "none") =>
           /\ result'.conn = "closed"
           /\ result'.tx \in {"committed", "rolledback"}
           /\ (result'.tx = "committed") <=> (result'.raised = "")
           /\ (result'.raised # "") => user_problem' = user_problem
           /\ (result'.raised = "") =>
                 \A w \in result'.write : w \in user_problem' \/
                    \E r \in user_problem' : SameKey(r, w)
                       /\ r.date_solved = w.date_solved
      /\ (user_problem' # user_problem) =>
           (result'.op = "log" /\ result'.status = 200)
      /\ \A p \in Procs : pc'[p] = "idle" => conn'[p] = "none" /\ write'[p] = {}
    ]_vars

\* A scope that issued its upsert and then failed at conn.commit().
C8_Witness ==
  /\ result.op = "log" /\ result.raised # "" /\ result.write # {}
  /\ result.tx = "rolledback" /\ result.conn = "closed"

\* ------------------------------------------------------------------- C9
\* C9: every stored row's next_review_date is the scheduler's output, at
\* the row's date_solved, for the row's difficulty and the date_solved of
\* the row it replaced (none if it replaced no row).
C9_DerivedFromReplacedRow ==
  \A r \in user_problem :
     r.next_review_date =
        calculate_next_review(r.difficulty,
                              replaced[<<r.user_id, r.slug>>],
                              r.date_solved).value

\* ------------------------------------------------------------------ C10
\* C10: every stored row has a difficulty in 1..5 and a next_review_date
\* 1 to 90 whole days after its date_solved; no row get_todays_reviews
\* returns as due was logged on the day of the call.
C10_NeverDueOnLogDay ==
  /\ \A r \in user_problem :
       /\ r.difficulty \in 1..5
       /\ \E g \in 1..90 : r.next_review_date = r.date_solved + Days(g)
  /\ (result.op = "reviews") =>
        \A r \in result.reviews_due : Day(r.date_solved) # Day(clock)

\* A user asks for today's reviews after logging a problem today, for the
\* second time and long after the first.
C10_Witness ==
  /\ result.op = "reviews"
  /\ \E r \in RowsOf(result.user_id) :
       /\ Day(r.date_solved) = Day(clock)
       /\ r.next_review_date = r.date_solved + Days(90)

====
